---- MODULE Spec2Model ----
(***************************************************************************)
(* Library Book Usage Analytics System (src/main.py).                      *)
(*                                                                         *)
(* The state is one LibraryAnalytics registry: its books dict (a mapping   *)
(* plus the insertion order Python dicts keep), its members dict, the Book *)
(* and Member objects they hold, and the last call made with its return    *)
(* value.  Every public operation is one synchronous step.  Book and       *)
(* Member objects are constructed fresh (Book.__init__, Member.__init__)   *)
(* by the caller and handed to add_book / add_member; afterwards they are  *)
(* reached through the registry (process_checkout, the queries) and        *)
(* through Member.return_book on a registered member.                      *)
(***************************************************************************)
EXTENDS Integers, Sequences, FiniteSets

VARIABLES
    books,      \* LibraryAnalytics.books: book_id -> Book
    bookOrder,  \* insertion order of the keys of LibraryAnalytics.books
    members,    \* LibraryAnalytics.members: member_id -> Member
    op,         \* the last call: its name and arguments
    ret,        \* the value the last call returned
    okCount     \* history: per book_id, the process_checkout calls that returned True

vars == <<books, bookOrder, members, op, ret, okCount>>

(* ------------------------------ bounds -------------------------------- *)

\* Successful checkouts in one run.
MaxCheckouts == 2

\* Largest limit handed to get_most_popular_books besides its default.
MaxLimit == 2

BookIds == {"B001", "B002"}
MemberIds == {"M001", "M002"}
Titles == {"Gatsby", "1984"}
Names == {"Alice", "Bob"}
Dates == {"2025-12-05"}

DefaultLimit == 10

Limits == ((0 - 1) .. MaxLimit) \cup {DefaultLimit}

None == "None"

\* what a call hands back: a returned value or a raised exception
Return(kind, val) == [kind |-> kind, val |-> val]

True == Return("bool", TRUE)

False == Return("bool", FALSE)

(* --------------------------- list helpers ----------------------------- *)

\* x in s, for a Python list s
InList(x, s) == \E i \in 1..Len(s) : s[i] = x

\* list.remove(x): drops the first occurrence of x (x is in s)
ListRemove(s, x) ==
    LET i == CHOOSE j \in 1..Len(s) : s[j] = x /\ \A k \in 1..(j - 1) : s[k] # x
    IN  [k \in 1..(Len(s) - 1) |-> IF k < i THEN s[k] ELSE s[k + 1]]

Reverse(s) == [i \in 1..Len(s) |-> s[Len(s) + 1 - i]]

\* s[:k] of a Python list: a negative k counts from the end
SliceTo(s, k) ==
    LET n == Len(s)
        stop == IF k < 0 THEN (IF n + k < 0 THEN 0 ELSE n + k)
                         ELSE (IF k > n THEN n ELSE k)
    IN  SubSeq(s, 1, stop)

RECURSIVE SumOver(_, _)
SumOver(f, S) ==
    IF S = {} THEN 0
    ELSE LET x == CHOOSE y \in S : TRUE IN f[x] + SumOver(f, S \ {x})

\* datetime.isoformat() of a datetime at midnight
isoformat(d) == d \o "T00:00:00"

(* ------------------------------- Book --------------------------------- *)

\* Book.__init__
Book(book_id, title) ==
    [book_id |-> book_id, title |-> title, total_checkouts |-> 0,
     checkout_history |-> <<>>, last_checkout |-> None]

\* record_checkout with "total_checkouts = 1" for "total_checkouts += 1"
record_checkout_set1(book, member_id, checkout_date) ==
    [book EXCEPT
        !.total_checkouts = 1,
        !.checkout_history =
            Append(@, [member_id |-> member_id,
                       checkout_date |-> isoformat(checkout_date)]),
        !.last_checkout = checkout_date]

\* record_checkout assigning a one-record history instead of appending
record_checkout_overwrite(book, member_id, checkout_date) ==
    [book EXCEPT
        !.total_checkouts = @ + 1,
        !.checkout_history =
            <<[member_id |-> member_id,
               checkout_date |-> isoformat(checkout_date)]>>,
        !.last_checkout = checkout_date]

\* Book.record_checkout
record_checkout(book, member_id, checkout_date) ==
    [book EXCEPT
        !.total_checkouts = @ + 1,
        !.checkout_history =
            Append(@, [member_id |-> member_id,
                       checkout_date |-> isoformat(checkout_date)]),
        !.last_checkout = checkout_date]

\* Book.to_dict
book_to_dict(book) ==
    [book_id |-> book.book_id, title |-> book.title,
     total_checkouts |-> book.total_checkouts,
     last_checkout |-> IF book.last_checkout # None
                       THEN isoformat(book.last_checkout) ELSE None]

(* ------------------------------ Member -------------------------------- *)

\* Member.__init__
Member(member_id, name) ==
    [member_id |-> member_id, name |-> name,
     books_checked_out |-> <<>>, checkout_history |-> <<>>]

\* checkout_book handing book.book_id to record_checkout as the member id
checkout_book_wrong_id(member, book, checkout_date) ==
    [member |->
        [member EXCEPT
            !.books_checked_out = Append(@, book.book_id),
            !.checkout_history =
                Append(@, [book_id |-> book.book_id,
                           checkout_date |-> isoformat(checkout_date)])],
     book |-> record_checkout(book, book.book_id, checkout_date)]

\* checkout_book without the append to the member's checkout_history
checkout_book_no_history(member, book, checkout_date) ==
    [member |->
        [member EXCEPT !.books_checked_out = Append(@, book.book_id)],
     book |-> record_checkout(book, member.member_id, checkout_date)]

\* Member.checkout_book: the member and the book after the call
checkout_book(member, book, checkout_date) ==
    [member |->
        [member EXCEPT
            !.books_checked_out = Append(@, book.book_id),
            !.checkout_history =
                Append(@, [book_id |-> book.book_id,
                           checkout_date |-> isoformat(checkout_date)])],
     book |-> record_checkout(book, member.member_id, checkout_date)]

\* return_book dropping every occurrence of book_id
return_book_all(member, book_id) ==
    IF InList(book_id, member.books_checked_out)
    THEN [ret |-> True,
          member |-> [member EXCEPT
                        !.books_checked_out =
                            SelectSeq(@, LAMBDA x : x # book_id)]]
    ELSE [ret |-> False, member |-> member]

\* Member.return_book: the return value and the member after the call
return_book(member, book_id) ==
    IF InList(book_id, member.books_checked_out)
    THEN [ret |-> True,
          member |-> [member EXCEPT
                        !.books_checked_out = ListRemove(@, book_id)]]
    ELSE [ret |-> False, member |-> member]

(* -------------------------- LibraryAnalytics -------------------------- *)

\* dict[key] = value: a new key goes to the end of the insertion order
DictSet(d, order, key, value) ==
    [map |-> [k \in (DOMAIN d) \cup {key} |-> IF k = key THEN value ELSE d[k]],
     order |-> IF key \in DOMAIN d THEN order ELSE Append(order, key)]

\* add_book without the "not in" guard: the new object replaces the old
add_book_overwrite(bs, order, book) ==
    LET r == DictSet(bs, order, book.book_id, book)
    IN  [ret |-> True, books |-> r.map, order |-> r.order]

\* LibraryAnalytics.add_book
add_book(bs, order, book) ==
    IF book.book_id \notin DOMAIN bs
    THEN LET r == DictSet(bs, order, book.book_id, book)
         IN  [ret |-> True, books |-> r.map, order |-> r.order]
    ELSE [ret |-> False, books |-> bs, order |-> order]

\* add_member without the "not in" guard: the new object replaces the old
add_member_overwrite(ms, member) ==
    [ret |-> True,
     members |-> DictSet(ms, <<>>, member.member_id, member).map]

\* LibraryAnalytics.add_member
add_member(ms, member) ==
    IF member.member_id \notin DOMAIN ms
    THEN [ret |-> True,
          members |-> DictSet(ms, <<>>, member.member_id, member).map]
    ELSE [ret |-> False, members |-> ms]

\* process_checkout with "and" for "or" in its guard: with one id missing
\* the dict lookup that follows raises KeyError
process_checkout_and(ms, bs, member_id, book_id, checkout_date) ==
    IF member_id \notin DOMAIN ms /\ book_id \notin DOMAIN bs
    THEN [ret |-> False, members |-> ms, books |-> bs]
    ELSE IF member_id \notin DOMAIN ms \/ book_id \notin DOMAIN bs
    THEN [ret |-> Return("raise", "KeyError"), members |-> ms, books |-> bs]
    ELSE LET r == checkout_book(ms[member_id], bs[book_id], checkout_date)
         IN  [ret |-> True,
              members |-> [ms EXCEPT ![member_id] = r.member],
              books |-> [bs EXCEPT ![book_id] = r.book]]

\* LibraryAnalytics.process_checkout
process_checkout(ms, bs, member_id, book_id, checkout_date) ==
    IF member_id \notin DOMAIN ms \/ book_id \notin DOMAIN bs
    THEN [ret |-> False, members |-> ms, books |-> bs]
    ELSE LET r == checkout_book(ms[member_id], bs[book_id], checkout_date)
         IN  [ret |-> True,
              members |-> [ms EXCEPT ![member_id] = r.member],
              books |-> [bs EXCEPT ![book_id] = r.book]]

\* list.sort's insertion of one element into an ascending run: after the
\* elements whose key is not greater, which keeps equal keys in their order
RECURSIVE InsertAsc(_, _, _)
InsertAsc(s, x, bs) ==
    IF s = <<>> THEN <<x>>
    ELSE IF bs[s[Len(s)]].total_checkouts <= bs[x].total_checkouts
         THEN Append(s, x)
         ELSE Append(InsertAsc(SubSeq(s, 1, Len(s) - 1), x, bs), s[Len(s)])

\* a stable ascending sort of the book ids by total_checkouts
RECURSIVE SortAsc(_, _)
SortAsc(s, bs) ==
    IF s = <<>> THEN <<>>
    ELSE InsertAsc(SortAsc(SubSeq(s, 1, Len(s) - 1), bs), s[Len(s)], bs)

\* an ascending sort reversed afterwards: equal keys come out backwards
sorted_books_unstable(bs, order) == Reverse(SortAsc(order, bs))

\* sorted(values, key=total_checkouts, reverse=True): CPython reverses the
\* list, sorts it ascending and stable, and reverses the result
sorted_books(bs, order) == Reverse(SortAsc(Reverse(order), bs))

\* LibraryAnalytics.get_most_popular_books
get_most_popular_books(bs, order, limit) ==
    LET top == SliceTo(sorted_books(bs, order), limit)
    IN  Return("list", [i \in 1..Len(top) |-> book_to_dict(bs[top[i]])])

\* a number as the quotient num/den
Number(num, den) == [raised |-> None, num |-> num, den |-> den]

\* total / count: raises ZeroDivisionError when count is 0
TrueDiv(total, count) ==
    IF count = 0 THEN [raised |-> "ZeroDivisionError", num |-> 0, den |-> 1]
    ELSE Number(total, count)

\* round(x, 2), in hundredths.  A quotient exactly halfway between two
\* hundredths goes to the even one.
Round2(x) ==
    LET n == 100 * x.num
        q == n \div x.den
        r == n % x.den
    IN  IF 2 * r < x.den THEN q
        ELSE IF 2 * r > x.den THEN q + 1
        ELSE IF q % 2 = 0 THEN q ELSE q + 1

\* get_usage_statistics dividing without the "total_books > 0" guard
get_usage_statistics_unguarded(bs, ms) ==
    LET total_books == Cardinality(DOMAIN bs)
        total_members == Cardinality(DOMAIN ms)
        total_checkouts ==
            SumOver([b \in DOMAIN bs |-> bs[b].total_checkouts], DOMAIN bs)
        avg_checkouts_per_book == TrueDiv(total_checkouts, total_books)
    IN  IF avg_checkouts_per_book.raised # None
        THEN Return("raise", avg_checkouts_per_book.raised)
        ELSE Return("dict",
                    [total_books |-> total_books,
                     total_members |-> total_members,
                     total_checkouts |-> total_checkouts,
                     average_checkouts_per_book |->
                         Round2(avg_checkouts_per_book)])

\* LibraryAnalytics.get_usage_statistics (generated_at, the clock, left out);
\* average_checkouts_per_book is in hundredths
get_usage_statistics(bs, ms) ==
    LET total_books == Cardinality(DOMAIN bs)
        total_members == Cardinality(DOMAIN ms)
        total_checkouts ==
            SumOver([b \in DOMAIN bs |-> bs[b].total_checkouts], DOMAIN bs)
        avg_checkouts_per_book ==
            IF total_books > 0 THEN TrueDiv(total_checkouts, total_books)
                               ELSE Number(0, 1)
    IN  IF avg_checkouts_per_book.raised # None
        THEN Return("raise", avg_checkouts_per_book.raised)
        ELSE Return("dict",
                    [total_books |-> total_books,
                     total_members |-> total_members,
                     total_checkouts |-> total_checkouts,
                     average_checkouts_per_book |->
                         Round2(avg_checkouts_per_book)])

(* ------------------------------ actions ------------------------------- *)

Call(name, member_id, book_id, arg) ==
    [name |-> name, member_id |-> member_id, book_id |-> book_id, arg |-> arg]

\* LibraryAnalytics.__init__
Init ==
    /\ books = <<>>
    /\ bookOrder = <<>>
    /\ members = <<>>
    /\ op = Call("__init__", None, None, None)
    /\ ret = Return("none", None)
    /\ okCount = [b \in BookIds |-> 0]

AddBook(b, t) ==
    LET r == add_book(books, bookOrder, Book(b, t))
    IN  /\ books' = r.books
        /\ bookOrder' = r.order
        /\ ret' = r.ret
        /\ op' = Call("add_book", None, b, t)
        /\ UNCHANGED <<members, okCount>>

AddMember(m, n) ==
    LET r == add_member(members, Member(m, n))
    IN  /\ members' = r.members
        /\ ret' = r.ret
        /\ op' = Call("add_member", m, None, n)
        /\ UNCHANGED <<books, bookOrder, okCount>>

ProcessCheckout(m, b, d) ==
    LET r == process_checkout(members, books, m, b, d)
    IN  /\ r.ret = True => SumOver(okCount, BookIds) < MaxCheckouts
        /\ members' = r.members
        /\ books' = r.books
        /\ ret' = r.ret
        /\ op' = Call("process_checkout", m, b, d)
        /\ okCount' = IF r.ret = True THEN [okCount EXCEPT ![b] = @ + 1]
                                      ELSE okCount
        /\ UNCHANGED bookOrder

\* Member.return_book on a registered member
ReturnBook(m, b) ==
    /\ m \in DOMAIN members
    /\ LET r == return_book(members[m], b)
       IN  /\ members' = [members EXCEPT ![m] = r.member]
           /\ ret' = r.ret
    /\ op' = Call("return_book", m, b, None)
    /\ UNCHANGED <<books, bookOrder, okCount>>

GetMostPopularBooks(k) ==
    /\ ret' = get_most_popular_books(books, bookOrder, k)
    /\ op' = Call("get_most_popular_books", None, None, k)
    /\ UNCHANGED <<books, bookOrder, members, okCount>>

GetUsageStatistics ==
    /\ ret' = get_usage_statistics(books, members)
    /\ op' = Call("get_usage_statistics", None, None, None)
    /\ UNCHANGED <<books, bookOrder, members, okCount>>

Next ==
    \/ \E b \in BookIds, t \in Titles : AddBook(b, t)
    \/ \E m \in MemberIds, n \in Names : AddMember(m, n)
    \/ \E m \in MemberIds, b \in BookIds, d \in Dates : ProcessCheckout(m, b, d)
    \/ \E m \in MemberIds, b \in BookIds : ReturnBook(m, b)
    \/ \E k \in Limits : GetMostPopularBooks(k)
    \/ GetUsageStatistics

Spec == Init /\ [][Next]_vars

(* ------------------------------ claims -------------------------------- *)

\* the shape of the registry: the insertion order lists the keys of books,
\* and every object sits under its own id
TypeOK ==
    /\ DOMAIN books \subseteq BookIds
    /\ DOMAIN members \subseteq MemberIds
    /\ Len(bookOrder) = Cardinality(DOMAIN books)
    /\ \A b \in DOMAIN books : InList(b, bookOrder) /\ books[b].book_id = b
    /\ \A m \in DOMAIN members : members[m].member_id = m

\* the number of times x occurs in the list s
Count(s, x) == Cardinality({i \in 1..Len(s) : s[i] = x})

\* s is a prefix of t
IsPrefix(s, t) == Len(s) <= Len(t) /\ SubSeq(t, 1, Len(s)) = s

\* the place of book_id in the registration order
Pos(order, book_id) == CHOOSE i \in 1..Len(order) : order[i] = book_id

\* the book ids a member's checkout_history names, in order
HistoryIds(member) ==
    [i \in 1..Len(member.checkout_history) |-> member.checkout_history[i].book_id]

\* C1: a process_checkout call whose patron id or entry id is not registered
\* (one of them or both) returns False and changes neither mapping nor any
\* book or member object.
C1_CheckoutUnregisteredRejected ==
    [][(/\ op'.name = "process_checkout"
        /\ \/ op'.member_id \notin DOMAIN members
           \/ op'.book_id \notin DOMAIN books)
       => /\ ret' = False
          /\ books' = books
          /\ bookOrder' = bookOrder
          /\ members' = members]_vars

\* C1: a checkout was refused with exactly one of the two ids registered,
\* in a registry that already holds checkout records
C1_Witness ==
    /\ op.name = "process_checkout"
    /\ ret = False
    /\ (op.member_id \in DOMAIN members) # (op.book_id \in DOMAIN books)
    /\ \E m \in DOMAIN members : members[m].checkout_history # <<>>

\* C2: a registered entry's total_checkouts equals the number of
\* process_checkout calls naming it that returned True.
C2_TotalEqualsSuccessfulCheckouts ==
    \A b \in DOMAIN books : books[b].total_checkouts = okCount[b]

\* C2: an entry checked out twice, another entry registered, and the last
\* call a refused checkout
C2_Witness ==
    /\ \E b \in DOMAIN books : okCount[b] >= 2
    /\ Cardinality(DOMAIN books) >= 2
    /\ op.name = "process_checkout"
    /\ ret = False

\* the ranking a get_most_popular_books result must show, whatever its length
RankedTop(r) ==
    /\ \A i \in 1..Len(r) :
          /\ r[i].book_id \in DOMAIN books
          /\ r[i] = book_to_dict(books[r[i].book_id])
    /\ \A i, j \in 1..Len(r) :
          i < j =>
            /\ r[i].total_checkouts >= r[j].total_checkouts
            /\ r[i].total_checkouts = r[j].total_checkouts
                 => Pos(bookOrder, r[i].book_id) < Pos(bookOrder, r[j].book_id)
    /\ \A b \in DOMAIN books :
          (\A i \in 1..Len(r) : r[i].book_id # b) =>
            \A i \in 1..Len(r) :
              \/ r[i].total_checkouts > books[b].total_checkouts
              \/ /\ r[i].total_checkouts = books[b].total_checkouts
                 /\ Pos(bookOrder, r[i].book_id) < Pos(bookOrder, b)

\* C3: for every limit k, get_most_popular_books(k) returns at most k
\* entries (none for a limit below 0), by non-increasing total_checkouts,
\* equal counts in registration order, the top of the ranking of all entries.
C3_RankAtMostLimit ==
    op.name = "get_most_popular_books" =>
        /\ ret.kind = "list"
        /\ Len(ret.val) <= (IF op.arg < 0 THEN 0 ELSE op.arg)
        /\ RankedTop(ret.val)

\* C3 for the limits that are counts: with k >= 0 the result is the first
\* min(k, n) entries of the stable ranking.
C3_RankNonNegativeLimit ==
    (op.name = "get_most_popular_books" /\ op.arg >= 0) =>
        /\ ret.kind = "list"
        /\ Len(ret.val) =
              (IF op.arg < Len(bookOrder) THEN op.arg ELSE Len(bookOrder))
        /\ RankedTop(ret.val)

\* C4: add_book / add_member with an id already registered returns False
\* and leaves both mappings and every object as they were; with a fresh id
\* it returns True and adds exactly that key, bound to the given object.
C4_AddIfAbsent ==
    [][/\ op'.name = "add_book" =>
            /\ members' = members
            /\ IF op'.book_id \in DOMAIN books
               THEN ret' = False /\ books' = books /\ bookOrder' = bookOrder
               ELSE /\ ret' = True
                    /\ DOMAIN books' = DOMAIN books \cup {op'.book_id}
                    /\ \A b \in DOMAIN books : books'[b] = books[b]
                    /\ books'[op'.book_id] = Book(op'.book_id, op'.arg)
                    /\ bookOrder' = Append(bookOrder, op'.book_id)
       /\ op'.name = "add_member" =>
            /\ books' = books
            /\ bookOrder' = bookOrder
            /\ IF op'.member_id \in DOMAIN members
               THEN ret' = False /\ members' = members
               ELSE /\ ret' = True
                    /\ DOMAIN members' = DOMAIN members \cup {op'.member_id}
                    /\ \A m \in DOMAIN members : members'[m] = members[m]
                    /\ members'[op'.member_id] = Member(op'.member_id, op'.arg)
      ]_vars

\* C4: add_book was refused for a registered id whose stored object differs
\* from the one offered (another title, checkouts on record)
C4_Witness ==
    /\ op.name = "add_book"
    /\ ret = False
    /\ books[op.book_id].title # op.arg
    /\ books[op.book_id].total_checkouts > 0

\* C5: every member id in a registered book's checkout_history is a key of
\* members, and every book id a registered member holds is a key of books.
C5_ReferencesRegistered ==
    /\ \A b \in DOMAIN books :
          \A i \in 1..Len(books[b].checkout_history) :
              books[b].checkout_history[i].member_id \in DOMAIN members
    /\ \A m \in DOMAIN members :
          \A i \in 1..Len(members[m].books_checked_out) :
              members[m].books_checked_out[i] \in DOMAIN books

\* C5: a book with a history record whose member still holds that book
C5_Witness ==
    \E b \in DOMAIN books, m \in DOMAIN members :
        /\ InList(b, members[m].books_checked_out)
        /\ \E i \in 1..Len(books[b].checkout_history) :
              books[b].checkout_history[i].member_id = m

\* C6 as stated: no book id occurs more than once in a member's
\* books_checked_out.
C6_HeldHasNoDuplicates ==
    \A m \in DOMAIN members :
        \A b \in BookIds : Count(members[m].books_checked_out, b) <= 1

\* C6 as the code has it: books_checked_out is a list that can hold an id
\* more than once, at most as often as the member's checkout_history names it.
C6_HeldWithinHistory ==
    \A m \in DOMAIN members :
        \A b \in BookIds :
            Count(members[m].books_checked_out, b)
                <= Count(HistoryIds(members[m]), b)

\* C6: a member holding the same book twice
C6_Witness ==
    \E m \in DOMAIN members :
        \E b \in BookIds : Count(members[m].books_checked_out, b) = 2

\* C7: return_book returns True exactly when the id was held, then drops
\* one occurrence of it and nothing else; otherwise it returns False and
\* changes nothing.  Histories, counters and last_checkout stay as they were.
C7_ReturnBookFrame ==
    [][op'.name = "return_book" =>
        LET m == op'.member_id
            b == op'.book_id
            before == members[m].books_checked_out
            after == members'[m].books_checked_out
        IN  /\ ret' = (IF InList(b, before) THEN True ELSE False)
            /\ InList(b, before) =>
                  /\ Len(after) = Len(before) - 1
                  /\ Count(after, b) = Count(before, b) - 1
                  /\ \A c \in BookIds \ {b} : Count(after, c) = Count(before, c)
            /\ ~InList(b, before) => after = before
            /\ members'[m].checkout_history = members[m].checkout_history
            /\ DOMAIN members' = DOMAIN members
            /\ \A o \in DOMAIN members \ {m} : members'[o] = members[o]
            /\ books' = books
            /\ bookOrder' = bookOrder]_vars

\* C7: a successful return that left another copy of the same id held
C7_Witness ==
    /\ op.name = "return_book"
    /\ ret = True
    /\ InList(op.book_id, members[op.member_id].books_checked_out)
    /\ books[op.book_id].total_checkouts = 2

\* C8: in every step each book's total_checkouts does not decrease, each
\* book's and member's checkout_history before the step is a prefix of the
\* one after it, and every registered book and member stays registered.
C8_HistoryOnlyGrows ==
    [][/\ \A b \in DOMAIN books :
            /\ b \in DOMAIN books'
            /\ books'[b].total_checkouts >= books[b].total_checkouts
            /\ IsPrefix(books[b].checkout_history, books'[b].checkout_history)
       /\ \A m \in DOMAIN members :
            /\ m \in DOMAIN members'
            /\ IsPrefix(members[m].checkout_history,
                        members'[m].checkout_history)
       /\ IsPrefix(bookOrder, bookOrder')]_vars

\* C8: a book checked out by two different members, one of whom has
\* returned it since
C8_Witness ==
    /\ op.name = "return_book"
    /\ ret = True
    /\ Len(books[op.book_id].checkout_history) = 2
    /\ books[op.book_id].checkout_history[1].member_id
          # books[op.book_id].checkout_history[2].member_id

\* C9: get_usage_statistics on a registry without books returns (raises
\* nothing) with average_checkouts_per_book = 0 and total_checkouts = 0.
C9_StatisticsOfEmptyRegistry ==
    (op.name = "get_usage_statistics" /\ DOMAIN books = {}) =>
        /\ ret.kind = "dict"
        /\ ret.val.average_checkouts_per_book = 0
        /\ ret.val.total_checkouts = 0
        /\ ret.val.total_books = 0

\* C9: statistics taken with members registered and no book
C9_Witness ==
    /\ op.name = "get_usage_statistics"
    /\ DOMAIN books = {}
    /\ Cardinality(DOMAIN members) = 2
    /\ ret.kind = "dict"

\* C10: the sum of total_checkouts over the registered books (the
\* total_checkouts statistic) equals the sum of the registered members'
\* checkout_history lengths and the number of process_checkout calls that
\* returned True; each book's total_checkouts is the length of its history.
C10_CheckoutTotalsAgree ==
    LET perBook == [b \in DOMAIN books |-> books[b].total_checkouts]
        perMember == [m \in DOMAIN members |-> Len(members[m].checkout_history)]
        total == SumOver(perBook, DOMAIN books)
    IN  /\ total = SumOver(perMember, DOMAIN members)
        /\ total = SumOver(okCount, BookIds)
        /\ get_usage_statistics(books, members).val.total_checkouts = total
        /\ \A b \in DOMAIN books :
              books[b].total_checkouts = Len(books[b].checkout_history)

\* C10: two members and two books, each with one checkout on record, read
\* by get_usage_statistics
C10_Witness ==
    /\ op.name = "get_usage_statistics"
    /\ ret.kind = "dict"
    /\ ret.val.total_checkouts = 2
    /\ \A m \in MemberIds :
          m \in DOMAIN members /\ Len(members[m].checkout_history) = 1
    /\ \A b \in BookIds : b \in DOMAIN books /\ books[b].total_checkouts = 1

====
